---------------------------- MODULE Spec2Model ----------------------------
(***************************************************************************)
(* dataframe-js: the DataFrame class (src/src/dataframe.js) and the table  *)
(* registry of the SQL module (src/src/modules/sql.js).                    *)
(*                                                                         *)
(* A JavaScript value is a record [t, n, s]: its typeof, its number and    *)
(* its text.  A column name is the sequence of its characters.  A Row, a   *)
(* plain record and a positional array are [kind, cells] with cells a      *)
(* sequence of <<name, value>> pairs.  A DataFrame is [columns, rows].     *)
(***************************************************************************)
EXTENDS Integers, Sequences, FiniteSets, TLC

VARIABLES
    d,      \* the receiver DataFrame: d.rows is this[__rows__], d.columns this[__columns__]
    e,      \* the DataFrame passed to the last binary operation
    op,     \* the method of d that was called and has returned or thrown, or "idle"
    args,   \* the other arguments of that call
    res,    \* what the call returned or threw
    pre,    \* d as it was when the call started
    tables,         \* SQL.tables: the registered names, each with the DataFrame it names
    pretables,      \* SQL.tables as it was when the call started
    defaultModules  \* DataFrame.defaultModules

vars == <<d, e, op, args, res, pre, tables, pretables, defaultModules>>

-----------------------------------------------------------------------------
(* Bounds of the model *)

MaxRows == 2        \* rows of the receiver
MaxOther == 2       \* rows of the other DataFrame of union / join
MaxSteps == 2       \* functions passed to chain
MaxSortRows == 3    \* rows of the receiver of a call that fails
MaxModules == 3     \* modules of a DataFrame from which another is derived

-----------------------------------------------------------------------------
(* JavaScript values *)

Num(k) == [t |-> "number", n |-> k, s |-> ""]
Str(x) == [t |-> "string", n |-> 0, s |-> x]
Undef == [t |-> "undefined", n |-> 0, s |-> ""]

typeof(v) == v.t

\* Column names, as sequences of characters
ID == <<"i", "d">>
X == <<"x">>
Y == <<"y">>
Z == <<"z">>
AGGREGATION == <<"a", "g", "g", "r", "e", "g", "a", "t", "i", "o", "n">>
AB == <<"a", " ", "b">>                 \* 'a b'
ABC == <<"a", " ", "b", " ", "c">>      \* 'a b c'

Digit(i) == CASE i = 0 -> "0" [] i = 1 -> "1" [] i = 2 -> "2" [] i = 3 -> "3" [] i = 4 -> "4"
              [] i = 5 -> "5" [] i = 6 -> "6" [] i = 7 -> "7" [] i = 8 -> "8" [] OTHER -> "9"

\* String(column) of a number below 100
StringOfNumber(i) == IF i < 10 THEN <<Digit(i)>> ELSE <<Digit(i \div 10), Digit(i % 10)>>

Range(s) == {s[i] : i \in DOMAIN s}

RECURSIVE SeqsUpTo(_, _)
SeqsUpTo(S, k) ==
    IF k = 0 THEN {<<>>}
    ELSE LET shorter == SeqsUpTo(S, k - 1)
         IN shorter \cup {Append(q, x) : q \in {q \in shorter : Len(q) = k - 1}, x \in S}

\* seq without its first element equal to x
RECURSIVE RemoveFirst(_, _)
RemoveFirst(s, x) ==
    IF s = <<>> THEN <<>>
    ELSE IF Head(s) = x THEN Tail(s)
    ELSE <<Head(s)>> \o RemoveFirst(Tail(s), x)

\* [...new Set(s)]: the distinct elements of s in order of first appearance
RECURSIVE Distinct(_)
Distinct(s) ==
    IF s = <<>> THEN <<>>
    ELSE LET front == Distinct(SubSeq(s, 1, Len(s) - 1))
             last == s[Len(s)]
         IN IF last \in Range(front) THEN front ELSE Append(front, last)

RECURSIVE Flatten(_)
Flatten(ss) == IF ss = <<>> THEN <<>> ELSE Head(ss) \o Flatten(Tail(ss))

Reverse(s) == [i \in 1..Len(s) |-> s[Len(s) + 1 - i]]

-----------------------------------------------------------------------------
(* Row (row.js) *)

RowColumns(r) == [i \in 1..Len(r.cells) |-> r.cells[i][1]]
RowToArray(r) == [i \in 1..Len(r.cells) |-> r.cells[i][2]]

\* object[column]: the value stored under the name, undefined when there is none
Lookup(cells, c) ==
    IF \E i \in DOMAIN cells : cells[i][1] = c
    THEN cells[CHOOSE i \in DOMAIN cells : cells[i][1] = c /\ \A j \in 1..(i-1) : cells[j][1] # c][2]
    ELSE Undef

RowGet(r, c) == Lookup(r.cells, c)

\* new Row(data, columns): by position from an array, by name from a Row or a record
RowNew(data, columns) ==
    [kind |-> "row",
     cells |-> [i \in 1..Len(columns) |->
                  <<columns[i],
                    IF data.kind = "array"
                    THEN (IF i <= Len(data.cells) THEN data.cells[i][2] ELSE Undef)
                    ELSE Lookup(data.cells, columns[i])>>]]

RowSet(r, c, v) ==
    IF c \in Range(RowColumns(r))
    THEN [r EXCEPT !.cells = [i \in DOMAIN r.cells |->
                                 IF r.cells[i][1] = c THEN <<c, v>> ELSE r.cells[i]]]
    ELSE [r EXCEPT !.cells = Append(r.cells, <<c, v>>)]

RowDelete(r, c) == [r EXCEPT !.cells = SelectSeq(r.cells, LAMBDA p : p[1] # c)]

RowSelect(r, columns) == RowNew(r, columns)

ArrayOf(vals) == [kind |-> "array", cells |-> [i \in 1..Len(vals) |-> <<StringOfNumber(i - 1), vals[i]>>]]
DictOf(cells) == [kind |-> "dict", cells |-> cells]

\* Object.keys(row) of an element of the input array
ObjectKeys(item) == [i \in 1..Len(item.cells) |-> item.cells[i][1]]

-----------------------------------------------------------------------------
(* reusables.js *)

\* arrayEqual(a, b): the same names in the same order
arrayEqual(a, b) == a = b

Max(S) == IF S = {} THEN 0 ELSE CHOOSE m \in S : \A k \in S : k <= m

\* transpose(table): row i of the result holds element i of every row of table
transpose(table) ==
    LET size == Max({Len(table[j]) : j \in DOMAIN table})
    IN [i \in 1..size |-> [j \in 1..Len(table) |->
            IF i <= Len(table[j]) THEN table[j][i] ELSE Undef]]

-----------------------------------------------------------------------------
(* What a call returns or throws *)

Ok(df) ==
    [status |-> "ok", err |-> "", dfs |-> <<df>>, keys |-> <<>>, calls |-> 0,
     trace |-> <<>>]
OkMany(dfs, keys) ==
    [status |-> "ok", err |-> "", dfs |-> dfs, keys |-> keys, calls |-> 0,
     trace |-> <<>>]
Throw(err) ==
    [status |-> "throw", err |-> err, dfs |-> <<>>, keys |-> <<>>, calls |-> 0,
     trace |-> <<>>]
NoCall ==
    [status |-> "none", err |-> "", dfs |-> <<>>, keys |-> <<>>, calls |-> 0,
     trace |-> <<>>]

IsOk(r) == r.status = "ok"
Df(r) == r.dfs[1]

-----------------------------------------------------------------------------
(* DataFrame construction *)

\* DataFrame.defaultModules: undefined until setDefaultModules is called
NoModules == [set |-> FALSE, list |-> <<>>]

NoColumns == [given |-> FALSE, names |-> <<>>]
Given(names) == [given |-> TRUE, names |-> names]

\* String(column).replace(' ', ''): the first space of the name is removed
_dropSpacesInColumnNames(columns) ==
    IF columns.given
    THEN Given([i \in 1..Len(columns.names) |-> RemoveFirst(columns.names[i], " ")])
    ELSE columns

ArrayData(items) == [kind |-> "array", items |-> items, columns |-> <<>>]
DictData(cells) == [kind |-> "dict", items |-> cells, columns |-> <<>>]
FrameData(df) == [kind |-> "dataframe", items |-> df.rows, columns |-> df.columns]
OtherData == [kind |-> "other", items |-> <<>>, columns |-> <<>>]

_fromArray(array, columns) ==
    [columns |-> columns, rows |-> [i \in 1..Len(array) |-> RowNew(array[i], columns)]]

_fromDict(dict, columns) ==
    LET table == transpose([j \in 1..Len(dict) |-> dict[j][2]])
    IN [columns |-> columns,
        rows |-> [i \in 1..Len(table) |-> RowNew(ArrayOf(table[i]), columns)]]

_build(data, columns) ==
    CASE data.kind = "dataframe" ->
           Ok(_fromArray(data.items, IF columns.given THEN columns.names ELSE data.columns))
      [] data.kind = "array" ->
           IF columns.given THEN Ok(_fromArray(data.items, columns.names))
           ELSE IF data.items = <<>>
                THEN Throw("TypeError")    \* reduce of an empty array without initial value
                ELSE Ok(_fromArray(data.items,
                         Distinct(Flatten([i \in 1..Len(data.items) |-> ObjectKeys(data.items[i])]))))
      [] data.kind = "dict" ->
           Ok(_fromDict(data.items,
                        IF columns.given THEN columns.names
                        ELSE [j \in 1..Len(data.items) |-> data.items[j][1]]))
      [] OTHER -> Throw("InputTypeError")

\* modules.map(Plugin => new Plugin(df ? df : this)): an instance of each module
\* of the list, made with the DataFrame that is being built
__instanciateModules__(modules) ==
    [i \in 1..Len(modules) |-> [plugin |-> modules[i], df |-> "self"]]

\* the DataFrame with its module list and the instances assigned to it
WithModules(df, modules) ==
    [columns |-> df.columns, rows |-> df.rows, modules |-> modules,
     plugins |-> __instanciateModules__(modules)]

\* the constructor, DataFrame.defaultModules being defaults
constructor(data, columns, modules, defaults) ==
    LET built == _build(data, _dropSpacesInColumnNames(columns))
    IN IF IsOk(built)
       THEN Ok(WithModules(Df(built),
                           IF defaults.set THEN defaults.list \o modules ELSE modules))
       ELSE built

\* new DataFrame(data, columns, ...modules)
DataFrameNewWith(data, columns, modules) ==
    constructor(data, columns, modules, defaultModules)

\* new DataFrame(data, columns), made before any default module is set
DataFrameNew(data, columns) == constructor(data, columns, <<>>, NoModules)

\* data[0] instanceof Row
FirstIsRow(data) ==
    data.kind = "array" /\ data.items # <<>> /\ data.items[1].kind = "row"

\* this.__newInstance__(data, columns)
__newInstance__(this, data, columns) ==
    IF ~arrayEqual(columns, this.columns) \/ ~FirstIsRow(data)
    THEN DataFrameNewWith(data, _dropSpacesInColumnNames(Given(columns)), this.modules)
    ELSE Ok(WithModules([columns |-> _dropSpacesInColumnNames(Given(columns)).names,
                         rows |-> data.items],
                        this.modules))


-----------------------------------------------------------------------------
(* The functions a caller passes: each is named, and applied by ApplyFn *)

FilterFns == {"idIs1", "xIsL", "never"}
MapFns == {"setX", "addZ"}
ValueFns == {"index", "constR", "undefined"}
AggregateFns == {"count", "firstX"}

BoolResult(b) == [isBool |-> TRUE, b |-> b, row |-> [kind |-> "row", cells |-> <<>>]]
RowResult(r) == [isBool |-> FALSE, b |-> TRUE, row |-> r]

\* func(row) of a function passed to filter, map or chain
ApplyFn(f, row) ==
    CASE f = "idIs1" -> BoolResult(RowGet(row, ID) = Num(1))
      [] f = "xIsL" -> BoolResult(RowGet(row, X) = Str("L"))
      [] f = "never" -> BoolResult(FALSE)
      [] f = "setX" -> RowResult(RowSet(row, X, Str("R")))
      [] OTHER -> RowResult(RowSet(row, Z, Num(1)))

\* func(row, index) of a function passed to withColumn
ApplyValueFn(f, row, index) ==
    CASE f = "index" -> Num(index)
      [] f = "constR" -> Str("R")
      [] OTHER -> Undef

\* a value used where JavaScript wants a boolean
Truthy(r) == IF r.isBool THEN r.b ELSE TRUE

\* [...iter(data, func)], given results[i] = func(data[i]): the results that
\* are not falsy, in order
iter(results) ==
    LET kept == SelectSeq(results, Truthy)
    IN [i \in 1..Len(kept) |-> kept[i].row]

\* one row through the functions of chain: a false stops it, a Row replaces it
RECURSIVE ChainRow(_, _)
ChainRow(row, funcs) ==
    IF funcs = <<>> THEN RowResult(row)
    ELSE LET next == ApplyFn(Head(funcs), row)
         IN IF next.isBool
            THEN (IF next.b THEN ChainRow(row, Tail(funcs)) ELSE BoolResult(FALSE))
            ELSE ChainRow(next.row, Tail(funcs))

\* [...chain(data, ...funcs)]
chainRows(data, funcs) == iter([i \in 1..Len(data) |-> ChainRow(data[i], funcs)])

\* the calls of the functions that a row that goes on after a false would cause
RECURSIVE ChainRowCallsNoStop(_, _, _, _)
ChainRowCallsNoStop(row, funcs, i, k) ==
    IF funcs = <<>> THEN <<>>
    ELSE LET next == ApplyFn(Head(funcs), row)
         IN <<[row |-> i, step |-> k, arg |-> row]>>
            \o ChainRowCallsNoStop(IF next.isBool THEN row ELSE next.row, Tail(funcs), i, k + 1)

\* the calls of the functions that ChainRow makes for row i of the data, in the
\* order in which it makes them: [row: i, step: the place of the function in the
\* list, arg: the Row it is called with]
RECURSIVE ChainRowCalls(_, _, _, _)
ChainRowCalls(row, funcs, i, k) ==
    IF funcs = <<>> THEN <<>>
    ELSE LET next == ApplyFn(Head(funcs), row)
         IN <<[row |-> i, step |-> k, arg |-> row]>>
            \o (IF next.isBool
                THEN (IF next.b THEN ChainRowCalls(row, Tail(funcs), i, k + 1) ELSE <<>>)
                ELSE ChainRowCalls(next.row, Tail(funcs), i, k + 1))

\* the calls that spreading chain(data, ...funcs) makes: iter takes the rows one
\* after the other
chainCalls(data, funcs) ==
    Flatten([i \in 1..Len(data) |-> ChainRowCalls(data[i], funcs, i, 1)])

-----------------------------------------------------------------------------
(* DataFrame: accessors and transformations *)

count(this) == Len(this.rows)
listColumns(this) == this.columns
toArray(this) == [i \in 1..Len(this.rows) |-> RowToArray(this.rows[i])]
toArrayOf(this, columnName) == [i \in 1..Len(this.rows) |-> RowGet(this.rows[i], columnName)]
toCollection(this) == this.rows     \* toCollection(true)

select(this, columnNames) ==
    __newInstance__(this,
        ArrayData([i \in 1..Len(this.rows) |-> RowSelect(this.rows[i], columnNames)]),
        columnNames)

withColumn(this, columnName, func) ==
    __newInstance__(this,
        ArrayData([i \in 1..Len(this.rows) |->
                     RowSet(this.rows[i], columnName, ApplyValueFn(func, this.rows[i], i - 1))]),
        IF columnName \in Range(this.columns) THEN this.columns
        ELSE Append(this.columns, columnName))

restructure(this, newColumnNames) ==
    __newInstance__(this, ArrayData(this.rows), newColumnNames)

\* renameAll without the comparison of the lengths
renameAllUnchecked(this, newColumnNames) ==
    __newInstance__(this,
        ArrayData([i \in 1..Len(this.rows) |-> ArrayOf(RowToArray(this.rows[i]))]),
        newColumnNames)

renameAll(this, newColumnNames) ==
    IF Len(newColumnNames) # Len(this.columns) THEN Throw("WrongSchemaError")
    ELSE __newInstance__(this,
            ArrayData([i \in 1..Len(this.rows) |-> ArrayOf(RowToArray(this.rows[i]))]),
            newColumnNames)

rename(this, columnName, replacement) ==
    renameAll(this, [i \in 1..Len(this.columns) |->
                       IF this.columns[i] = columnName THEN replacement ELSE this.columns[i]])

drop(this, columnName) ==
    __newInstance__(this,
        ArrayData([i \in 1..Len(this.rows) |-> RowDelete(this.rows[i], columnName)]),
        SelectSeq(this.columns, LAMBDA c : c # columnName))

distinct(this, columnName) ==
    __newInstance__(this,
        DictData(<< <<columnName, Distinct(toArrayOf(this, columnName))>> >>),
        <<columnName>>)

\* chain that does not hand its first function on
chainWithoutFirst(this, funcs) ==
    __newInstance__(this,
        ArrayData(chainRows(this.rows, IF funcs = <<>> THEN funcs ELSE Tail(funcs))),
        this.columns)

chain(this, funcs) ==
    __newInstance__(this, ArrayData(chainRows(this.rows, funcs)), this.columns)

FnCondition(f) == [isFn |-> TRUE, fn |-> f, pairs |-> <<>>]
MapCondition(pairs) == [isFn |-> FALSE, fn |-> "", pairs |-> pairs]

\* the pairs of the condition all match the row (Object.is on each, reduced with &&)
MatchesAll(row, pairs) == \A i \in DOMAIN pairs : RowGet(row, pairs[i][1]) = pairs[i][2]

filter(this, condition) ==
    IF ~condition.isFn /\ condition.pairs = <<>> /\ this.rows # <<>>
    THEN Throw("TypeError")      \* reduce of an empty array without initial value
    ELSE LET func(row) == IF condition.isFn THEN ApplyFn(condition.fn, row)
                          ELSE BoolResult(MatchesAll(row, condition.pairs))
             filteredRows == iter([i \in 1..Len(this.rows) |->
                                     IF Truthy(func(this.rows[i])) THEN RowResult(this.rows[i])
                                     ELSE BoolResult(FALSE)])
         IN IF Len(filteredRows) > 0
            THEN __newInstance__(this, ArrayData(filteredRows), this.columns)
            ELSE __newInstance__(this, ArrayData(<<>>), <<>>)

map(this, func) ==
    __newInstance__(this,
        ArrayData(iter([i \in 1..Len(this.rows) |-> ApplyFn(func, this.rows[i])])),
        this.columns)

RECURSIVE ReplaceIn(_, _, _, _)
ReplaceIn(row, columnNames, value, replacement) ==
    IF columnNames = <<>> THEN row
    ELSE ReplaceIn(IF RowGet(row, Head(columnNames)) = value
                   THEN RowSet(row, Head(columnNames), replacement) ELSE row,
                   Tail(columnNames), value, replacement)

replace(this, value, replacement, columnNames) ==
    __newInstance__(this,
        ArrayData([i \in 1..Len(this.rows) |->
                     ReplaceIn(this.rows[i],
                               IF Len(columnNames) > 0 THEN columnNames ELSE this.columns,
                               value, replacement)]),
        this.columns)

dftranspose(this) ==
    LET table == transpose(toArray(this))
    IN __newInstance__(this,
          ArrayData([i \in 1..Len(table) |-> ArrayOf(table[i])]),
          [i \in 1..count(this) |-> StringOfNumber(i - 1)])

\* union without the comparison of the schemas
unionUnchecked(this, dfToUnion) ==
    __newInstance__(this, ArrayData(this.rows \o dfToUnion.rows), this.columns)

union(this, dfToUnion) ==
    IF ~arrayEqual(this.columns, dfToUnion.columns) THEN Throw("WrongSchemaError")
    ELSE __newInstance__(this, ArrayData(this.rows \o dfToUnion.rows), this.columns)

push(this, rows) ==
    LET built == DataFrameNewWith(ArrayData(rows), Given(this.columns), <<>>)
    IN IF IsOk(built) THEN union(this, Df(built)) ELSE built

-----------------------------------------------------------------------------
(* shuffle, sample, bisect: Math.random() is a choice among its outcomes *)

Take(s, k) == SubSeq(s, 1, IF k < Len(s) THEN k ELSE Len(s))
DropFirst(s, k) == SubSeq(s, (IF k < Len(s) THEN k ELSE Len(s)) + 1, Len(s))

\* the arrays the reduce of shuffle can build from two rows or more:
\* [p, n] for the first two, then [...p.slice(index), n, ...p.slice(0, index)]
\* with index = floor(random * (p.length - 1) + 1), a number of 1..p.length-1
RECURSIVE ShuffledRows(_)
ShuffledRows(rows) ==
    IF Len(rows) = 2 THEN {rows}
    ELSE LET n == rows[Len(rows)]
         IN {SubSeq(p, index + 1, Len(p)) \o <<n>> \o SubSeq(p, 1, index) :
               p \in ShuffledRows(SubSeq(rows, 1, Len(rows) - 1)),
               index \in 1..(Len(rows) - 2)}

\* the outcomes of this.shuffle()
shuffle(this) ==
    IF count(this) = 0
    THEN {Throw("TypeError")}      \* reduce of an empty array without initial value
    ELSE IF count(this) = 1
    \* reduce returns the single Row itself, which the constructor takes for a
    \* column mapping: no row of it survives
    THEN {DataFrameNewWith(DictData(<<>>), Given(this.columns), this.modules),
          Throw("TypeError")}
    ELSE {__newInstance__(this, ArrayData(p), this.columns) : p \in ShuffledRows(this.rows)}

\* the rows iter yields while token < nRows, nRows = count * halves / 2
TakenRows(this, halves) ==
    CHOOSE k \in 0..count(this) :
        /\ 2 * k >= count(this) * halves
        /\ \A j \in 0..(k - 1) : 2 * j < count(this) * halves

sample(this, halves) ==
    {IF IsOk(s)
     THEN __newInstance__(this, ArrayData(Take(Df(s).rows, TakenRows(this, halves))), this.columns)
     ELSE s : s \in shuffle(this)}

bisect(this, halves) ==
    {IF IsOk(s)
     THEN LET first == __newInstance__(this,
                           ArrayData(Take(Df(s).rows, TakenRows(this, halves))), this.columns)
              rest == __newInstance__(this,
                           ArrayData(DropFirst(Df(s).rows, TakenRows(this, halves))), this.columns)
          IN OkMany(<<Df(first), Df(rest)>>, <<>>)
     ELSE s : s \in shuffle(this)}

-----------------------------------------------------------------------------
(* GroupedDataFrame (groupedDataframe.js) *)

GroupKeyOf(row, on) == [i \in 1..Len(on) |-> <<on[i], RowGet(row, on[i])>>]

\* new GroupedDataFrame(df, ...columnNames): one group for each distinct key, in
\* the order in which the keys first appear, each with the rows of df that have it
GroupedDataFrameNew(df, columnNames) ==
    LET keys == Distinct([i \in 1..Len(df.rows) |-> GroupKeyOf(df.rows[i], columnNames)])
    IN [on |-> columnNames,
        groups |-> [k \in 1..Len(keys) |->
            [groupKey |-> keys[k],
             group |-> [df EXCEPT !.rows = SelectSeq(df.rows,
                                   LAMBDA r : GroupKeyOf(r, columnNames) = keys[k])]]]]

listGroups(gdf) == [k \in 1..Len(gdf.groups) |-> gdf.groups[k].groupKey]
gdfToCollection(gdf) == gdf.groups

\* func(group) of a function passed to aggregate
ApplyAggregateFn(f, group) ==
    IF f = "count" THEN Num(Len(group.rows))
    ELSE IF group.rows = <<>> THEN Undef ELSE RowGet(group.rows[1], X)

\* gdf.aggregate(func): a row for each group, the key then func(group)
aggregate(gdf, func) ==
    [Ok(WithModules(
          [columns |-> Append(gdf.on, AGGREGATION),
           rows |-> [k \in 1..Len(gdf.groups) |->
             [kind |-> "row",
              cells |-> Append(gdf.groups[k].groupKey,
                               <<AGGREGATION, ApplyAggregateFn(func, gdf.groups[k].group)>>)]]],
          IF defaultModules.set THEN defaultModules.list ELSE <<>>))
     EXCEPT !.calls = Len(gdf.groups)]

\* groupBy that does not hand the column names on
groupByNoColumns(this, columnNames) == GroupedDataFrameNew(this, <<>>)

groupBy(this, columnNames) == GroupedDataFrameNew(this, columnNames)

-----------------------------------------------------------------------------
(* sortBy *)

\* the length up to which an engine that sorts in place uses the insertion sort
InsertionSortLimit == 10

\* the comparison without the test of the types
CompareUntyped(p, n, columnName) ==
    LET pValue == RowGet(p, columnName)
        nValue == RowGet(n, columnName)
    IN IF typeof(pValue) = "number" /\ typeof(nValue) = "number"
       THEN [threw |-> FALSE, sign |-> pValue.n - nValue.n]
       ELSE [threw |-> FALSE, sign |-> 0]

\* the function sortBy hands to Array.prototype.sort
Compare(p, n, columnName) ==
    LET pValue == RowGet(p, columnName)
        nValue == RowGet(n, columnName)
    IN IF typeof(pValue) # typeof(nValue) THEN [threw |-> TRUE, sign |-> 0]
       ELSE IF typeof(pValue) = "number" THEN [threw |-> FALSE, sign |-> pValue.n - nValue.n]
       ELSE [threw |-> FALSE, sign |-> 0]       \* NaN: sort takes it for 0

\* Array.prototype.sort of an engine that sorts in place, for an array of
\* InsertionSortLimit elements or fewer, as an insertion sort: the element at
\* position j moves left while the comparison with its left neighbour is
\* positive.  A stable sort that works on a copy returns the same array.
RECURSIVE InsertLeft(_, _, _)
InsertLeft(arr, j, columnName) ==
    IF j = 1 THEN [threw |-> FALSE, arr |-> arr]
    ELSE LET c == Compare(arr[j - 1], arr[j], columnName)
         IN IF c.threw THEN [threw |-> TRUE, arr |-> arr]
            ELSE IF c.sign > 0
            THEN InsertLeft([arr EXCEPT ![j - 1] = arr[j], ![j] = arr[j - 1]], j - 1, columnName)
            ELSE [threw |-> FALSE, arr |-> arr]

RECURSIVE SortFrom(_, _, _)
SortFrom(arr, i, columnName) ==
    IF i > Len(arr) THEN [threw |-> FALSE, arr |-> arr]
    ELSE LET placed == InsertLeft(arr, i, columnName)
         IN IF placed.threw THEN placed ELSE SortFrom(placed.arr, i + 1, columnName)

InsertAt(s, pos, x) == SubSeq(s, 1, pos - 1) \o <<x>> \o SubSeq(s, pos, Len(s))

\* the orders of the first k elements of arr that the comparison accepts as
\* sorted: elements that compare as equal come in any order
RECURSIVE SortedOrders(_, _, _)
SortedOrders(arr, k, columnName) ==
    IF k = 0 THEN {<<>>}
    ELSE LET fits(p, pos) ==
                 /\ \A j \in 1..(pos - 1) : Compare(p[j], arr[k], columnName).sign <= 0
                 /\ \A j \in pos..Len(p) : Compare(arr[k], p[j], columnName).sign <= 0
         IN {InsertAt(q[1], q[2], arr[k]) :
               q \in {q \in SortedOrders(arr, k - 1, columnName) \X (1..k) : fits(q[1], q[2])}}

\* the outcomes of arr.sort(compare), [threw, arr: the array when it ends].
\* When the comparison throws, an engine that sorts a copy has not written to the
\* array and one that sorts in place has left it as it was then.  Without a throw
\* the array is sorted; an engine whose sort is not stable (V8 before 7.0 sorts
\* more than InsertionSortLimit elements with a quicksort) can leave the elements
\* that compare as equal in any order.
ArraySort(arr, columnName) ==
    LET inserted == SortFrom(arr, 2, columnName)
    IN IF inserted.threw THEN {[threw |-> TRUE, arr |-> arr], inserted}
       ELSE IF Len(arr) <= InsertionSortLimit THEN {inserted}
       ELSE {[threw |-> FALSE, arr |-> p] : p \in SortedOrders(arr, Len(arr), columnName)}

\* the outcomes of sortBy(columnName, reverse): [out: what it returns or throws,
\*                                               rows: this[__rows__] when it ends]
\* sort and reverse work in place on this[__rows__]
sortBy(this, columnName, reverse) ==
    {IF sorted.threw
     THEN [out |-> Throw("MixedTypeError"), rows |-> sorted.arr]
     ELSE LET sortedRows == IF reverse THEN Reverse(sorted.arr) ELSE sorted.arr
          IN [out |-> __newInstance__(this, ArrayData(sortedRows), this.columns),
              rows |-> sortedRows] :
     sorted \in ArraySort(this.rows, columnName)}

-----------------------------------------------------------------------------
(* Joins *)

FirstKeyValue(groupKey) == groupKey[1][2]      \* Object.values(groupKey)[0]

\* _joinByType with the tests of 'in' and 'out' exchanged
_joinByTypeExchanged(gdf1, gdf2, type) ==
    IF type = "out" \/ type = "in"
    THEN LET gdf2Groups == [k \in 1..Len(listGroups(gdf2)) |-> FirstKeyValue(listGroups(gdf2)[k])]
             isContained(g) == FirstKeyValue(g.groupKey) \in Range(gdf2Groups)
             kept == SelectSeq(gdfToCollection(gdf1),
                        LAMBDA g : IF type = "out" THEN isContained(g) ELSE ~isContained(g))
         IN [k \in 1..Len(kept) |-> kept[k].group]
    ELSE [k \in 1..Len(gdf1.groups) |-> gdfToCollection(gdf1)[k].group]

_joinByType(gdf1, gdf2, type) ==
    IF type = "out" \/ type = "in"
    THEN LET gdf2Groups == [k \in 1..Len(listGroups(gdf2)) |-> FirstKeyValue(listGroups(gdf2)[k])]
             isContained(g) == FirstKeyValue(g.groupKey) \in Range(gdf2Groups)
             kept == SelectSeq(gdfToCollection(gdf1),
                        LAMBDA g : IF type = "out" THEN ~isContained(g) ELSE isContained(g))
         IN [k \in 1..Len(kept) |-> kept[k].group]
    ELSE [k \in 1..Len(gdf1.groups) |-> gdfToCollection(gdf1)[k].group]

\* groups.reduce((p, n) => p.union(n)) with p the result so far
RECURSIVE UnionAll(_, _)
UnionAll(p, groups) ==
    IF groups = <<>> \/ ~IsOk(p) THEN p
    ELSE UnionAll(union(Df(p), Head(groups)), Tail(groups))

\* _join with the columns of dfToJoin put first in newColumns
_joinRightColumnsFirst(this, dfToJoin, on, types) ==
    LET newColumns == Distinct(listColumns(dfToJoin) \o listColumns(this))
        gdf == groupBy(this, <<on>>)
        gdfToJoin == groupBy(dfToJoin, <<on>>)
        groups == _joinByType(gdf, gdfToJoin, types[1]) \o _joinByType(gdfToJoin, gdf, types[2])
        restructured == [k \in 1..Len(groups) |-> Df(restructure(groups[k], newColumns))]
    IN IF restructured = <<>>
       THEN Throw("TypeError")
       ELSE UnionAll(Ok(Head(restructured)), Tail(restructured))

\* _join with the groups of dfToJoin put before the groups of this
_joinRightGroupsFirst(this, dfToJoin, on, types) ==
    LET newColumns == Distinct(listColumns(this) \o listColumns(dfToJoin))
        gdf == groupBy(this, <<on>>)
        gdfToJoin == groupBy(dfToJoin, <<on>>)
        groups == _joinByType(gdfToJoin, gdf, types[2]) \o _joinByType(gdf, gdfToJoin, types[1])
        restructured == [k \in 1..Len(groups) |-> Df(restructure(groups[k], newColumns))]
    IN IF restructured = <<>>
       THEN Throw("TypeError")
       ELSE UnionAll(Ok(Head(restructured)), Tail(restructured))

_join(this, dfToJoin, on, types) ==
    LET newColumns == Distinct(listColumns(this) \o listColumns(dfToJoin))
        gdf == groupBy(this, <<on>>)
        gdfToJoin == groupBy(dfToJoin, <<on>>)
        groups == _joinByType(gdf, gdfToJoin, types[1]) \o _joinByType(gdfToJoin, gdf, types[2])
        restructured == [k \in 1..Len(groups) |-> Df(restructure(groups[k], newColumns))]
    IN IF restructured = <<>>
       THEN Throw("TypeError")     \* reduce of an empty array without initial value
       ELSE UnionAll(Ok(Head(restructured)), Tail(restructured))

innerJoin(this, dfToJoin, on) == _join(this, dfToJoin, on, <<"in", "in">>)
fullJoin(this, dfToJoin, on) == _join(this, dfToJoin, on, <<"", "">>)
outerJoin(this, dfToJoin, on) == _join(this, dfToJoin, on, <<"out", "out">>)
leftJoin(this, dfToJoin, on) == _join(this, dfToJoin, on, <<"", "in">>)
rightJoin(this, dfToJoin, on) == _join(this, dfToJoin, on, <<"in", "">>)

JoinModes == {"inner", "full", "outer", "left", "right"}

join(this, dfToJoin, on, how) ==
    CASE how = "inner" -> innerJoin(this, dfToJoin, on)
      [] how = "full" -> fullJoin(this, dfToJoin, on)
      [] how = "outer" -> outerJoin(this, dfToJoin, on)
      [] how = "left" -> leftJoin(this, dfToJoin, on)
      [] OTHER -> rightJoin(this, dfToJoin, on)

-----------------------------------------------------------------------------
(* SQL: the table registry (modules/sql.js) *)

\* a call that returns nothing, and a call that returns a list of names
Done ==
    [status |-> "ok", err |-> "", dfs |-> <<>>, keys |-> <<>>, calls |-> 0,
     trace |-> <<>>]
Names(list) ==
    [status |-> "ok", err |-> "", dfs |-> <<>>, keys |-> list, calls |-> 0,
     trace |-> <<>>]

\* what registerTable is given as df: a DataFrame, by reference, or something else
TableRefs == {"this", "other"}
NotAFrame == "array"
NoTable == "undefined"

\* Object.keys(SQL.tables): the names in the order in which they were added
listTables(t) == [i \in 1..Len(t) |-> t[i][1]]

\* SQL.tables[tableName]
TableOf(t, tableName) ==
    IF \E i \in DOMAIN t : t[i][1] = tableName
    THEN t[CHOOSE i \in DOMAIN t : t[i][1] = tableName][2]
    ELSE NoTable

\* SQL.tables[tableName] = df: an existing name keeps its place
SetTable(t, tableName, df) ==
    IF tableName \in Range(listTables(t))
    THEN [i \in DOMAIN t |-> IF t[i][1] = tableName THEN <<tableName, df>> ELSE t[i]]
    ELSE Append(t, <<tableName, df>>)

dropTables(t) == <<>>

dropTable(t, tableName) == SelectSeq(t, LAMBDA p : p[1] # tableName)

\* registerTable that overwrites whatever it is told
registerTableAlways(t, df, tableName, overwrite) ==
    IF df = NoTable THEN [out |-> Throw("TypeError"), tables |-> t]
    ELSE IF df \notin TableRefs THEN [out |-> Throw("InputTypeError"), tables |-> t]
    ELSE [out |-> Done, tables |-> SetTable(t, tableName, df)]

\* registerTable(df, tableName, overwrite): [out: what it returns or throws,
\*                                           tables: SQL.tables when it ends]
registerTable(t, df, tableName, overwrite) ==
    IF df = NoTable THEN [out |-> Throw("TypeError"), tables |-> t]     \* undefined.constructor
    ELSE IF df \notin TableRefs THEN [out |-> Throw("InputTypeError"), tables |-> t]
    ELSE IF tableName \in Range(listTables(t)) /\ ~overwrite
    THEN [out |-> Throw("TableAlreadyExistsError"), tables |-> t]
    ELSE [out |-> Done, tables |-> SetTable(t, tableName, df)]

renameTable(t, tableName, replacement, overwrite) ==
    LET registered == registerTable(t, TableOf(t, tableName), replacement, overwrite)
    IN IF IsOk(registered.out)
       THEN [out |-> Done, tables |-> dropTable(registered.tables, tableName)]
       ELSE registered

-----------------------------------------------------------------------------
(* The inputs of the model *)

NoFrame == [columns |-> <<>>, rows |-> <<>>, modules |-> <<>>, plugins |-> <<>>]

NoArgs == [cols |-> <<>>, fns |-> <<>>, pairs |-> <<>>, val |-> Undef, val2 |-> Undef,
           flag |-> FALSE, num |-> 0, items |-> <<>>, table |-> "", table2 |-> "", df |-> "",
           modules |-> <<>>, method |-> ""]

\* the records the receiver is built from: {id: ..., x: 'L'} and {id: 1}
ReceiverRecords ==
    {DictOf(<< <<ID, i>>, <<X, Str("L")>> >>) : i \in {Num(1), Num(2), Str("a")}}
    \cup {DictOf(<< <<ID, Num(1)>> >>)}

\* the records the other DataFrame is built from: {id: ..., y: ...} or {id: ..., x: 'L'}
OtherRecordsY == {DictOf(<< <<ID, i>>, <<Y, y>> >>) : i \in {Num(1), Num(2)}, y \in {Str("R"), Str("R2")}}
OtherRecordsX == {DictOf(<< <<ID, i>>, <<X, Str("L")>> >>) : i \in {Num(1), Num(2)}}
OtherSchemasX == {<<ID, X>>, <<X, ID>>}

Receivers ==
    {Df(DataFrameNew(ArrayData(items), Given(<<ID, X>>))) : items \in SeqsUpTo(ReceiverRecords, MaxRows)}

Others ==
    {Df(DataFrameNew(ArrayData(items), Given(<<ID, Y>>))) : items \in SeqsUpTo(OtherRecordsY, MaxOther)}
    \cup
    {Df(DataFrameNew(ArrayData(items), Given(c))) :
        items \in SeqsUpTo(OtherRecordsX, MaxOther), c \in OtherSchemasX}

ColumnLists == {<<ID>>, <<X, ID>>, <<ID, X>>, <<ID, X, Y>>, <<Y>>, <<>>}
NewNames == {<<Y>>, <<Y, Z>>, <<X, ID>>, <<ID, X, Y>>}
Conditions ==
    {FnCondition(f) : f \in FilterFns}
    \cup {MapCondition(pairs) : pairs \in {<<>>, << <<ID, Num(1)>> >>, << <<X, Undef>> >>,
                                          << <<ID, Num(1)>>, <<X, Str("L")>> >>}}
StepLists == SeqsUpTo(FilterFns \cup MapFns, MaxSteps)
PushedRows == LET a == ArrayOf(<<Num(2), Str("L")>>)
                  b == ArrayOf(<<Num(1)>>)
              IN {<<>>, <<a>>, <<b>>, <<a, b>>}
Halves == {0, 1, 2}       \* the fraction of sample and bisect, in halves

\* the receivers of the calls that fail: up to MaxSortRows rows {id: ..., x: 'L'}
SortRecords == {DictOf(<< <<ID, i>>, <<X, Str("L")>> >>) : i \in {Num(1), Num(2), Str("a")}}
SortReceivers ==
    {Df(DataFrameNew(ArrayData(items), Given(<<ID, X>>))) : items \in SeqsUpTo(SortRecords, MaxSortRows)}

\* a second DataFrame, with another schema: [{id: 1, y: 'R'}]
OtherFrame == Df(DataFrameNew(ArrayData(<<DictOf(<< <<ID, Num(1)>>, <<Y, Str("R")>> >>)>>),
                              Given(<<ID, Y>>)))

\* DataFrames of InsertionSortLimit + 1 rows: the ids InsertionSortLimit .. 1,
\* each with x 'L', and at one place a row {id: k} without x
LongReceivers ==
    {Df(DataFrameNew(
          ArrayData(InsertAt([i \in 1..InsertionSortLimit |->
                                 DictOf(<< <<ID, Num(InsertionSortLimit + 1 - i)>>, <<X, Str("L")>> >>)],
                             place, DictOf(<< <<ID, Num(k)>> >>))),
          Given(<<ID, X>>))) :
       k \in 1..InsertionSortLimit, place \in 1..(InsertionSortLimit + 1)}

TableNames == {"tmp", "tmp2", "tmp3"}

\* what the constructor is given: records, a positional array, a column mapping,
\* a number; with no schema or with one whose first name has 0, 1 or 2 spaces
BuildData ==
    {ArrayData(<<DictOf(<< <<ID, Num(1)>>, <<X, Str("L")>> >>)>>),
     ArrayData(<<DictOf(<< <<AB, Num(1)>>, <<X, Str("L")>> >>)>>),
     ArrayData(<<ArrayOf(<<Num(1), Str("L")>>)>>),
     DictData(<< <<AB, <<Num(1), Num(2)>> >>, <<X, <<Str("L")>> >> >>),
     OtherData}
BuildColumns == {NoColumns, Given(<<ID, X>>), Given(<<AB, X>>), Given(<<ABC, X>>)}
DefaultLists == {<<>>, <<"SQL">>}
ModuleLists == {<<>>, <<"FakeModule">>}
DerivedBy == {"restructure", "renameAll", "filter", "map"}

-----------------------------------------------------------------------------
(* The state machine: one action for each method called on d *)

Init ==
    /\ defaultModules = NoModules
    /\ d \in Receivers
    /\ e = NoFrame
    /\ op = "idle"
    /\ args = NoArgs
    /\ res = NoCall
    /\ pre = d
    /\ tables = <<>>
    /\ pretables = tables

\* a call that leaves this[__rows__] and this[__columns__] alone
Call(name, a, other, outcome) ==
    /\ op = "idle"
    /\ op' = name
    /\ args' = a
    /\ e' = other
    /\ res' = outcome
    /\ pre' = d
    /\ d' = d
    /\ pretables' = tables
    /\ UNCHANGED <<tables, defaultModules>>

Select ==
    \E c \in ColumnLists : Call("select", [NoArgs EXCEPT !.cols = c], NoFrame, select(d, c))

WithColumn ==
    \E c \in {X, Z}, f \in ValueFns :
        Call("withColumn", [NoArgs EXCEPT !.cols = <<c>>, !.fns = <<f>>], NoFrame,
             withColumn(d, c, f))

Restructure ==
    \E c \in ColumnLists :
        Call("restructure", [NoArgs EXCEPT !.cols = c], NoFrame, restructure(d, c))

RenameAll ==
    \E c \in NewNames : Call("renameAll", [NoArgs EXCEPT !.cols = c], NoFrame, renameAll(d, c))

Rename ==
    \E c \in {ID, X, Y}, r \in {Z, ID} :
        Call("rename", [NoArgs EXCEPT !.cols = <<c, r>>], NoFrame, rename(d, c, r))

Drop ==
    \E c \in {ID, X, Y} : Call("drop", [NoArgs EXCEPT !.cols = <<c>>], NoFrame, drop(d, c))

DistinctOf ==
    \E c \in {ID, X} : Call("distinct", [NoArgs EXCEPT !.cols = <<c>>], NoFrame, distinct(d, c))

Filter ==
    \E c \in Conditions :
        Call("filter", [NoArgs EXCEPT !.fns = IF c.isFn THEN <<c.fn>> ELSE <<>>,
                                      !.pairs = c.pairs, !.flag = c.isFn],
             NoFrame, filter(d, c))

Map ==
    \E f \in MapFns : Call("map", [NoArgs EXCEPT !.fns = <<f>>], NoFrame, map(d, f))

Chain ==
    \E fs \in StepLists :
        Call("chain", [NoArgs EXCEPT !.fns = fs], NoFrame,
             [chain(d, fs) EXCEPT !.trace = chainCalls(d.rows, fs)])

Replace ==
    \E v \in {Undef, Num(1)}, c \in {<<>>, <<X>>, <<Y>>} :
        Call("replace", [NoArgs EXCEPT !.val = v, !.val2 = Num(0), !.cols = c], NoFrame,
             replace(d, v, Num(0), c))

Transpose == Call("transpose", NoArgs, NoFrame, dftranspose(d))

Shuffle == \E o \in shuffle(d) : Call("shuffle", NoArgs, NoFrame, o)

Sample ==
    \E h \in Halves : \E o \in sample(d, h) :
        Call("sample", [NoArgs EXCEPT !.num = h], NoFrame, o)

Bisect ==
    \E h \in Halves : \E o \in bisect(d, h) :
        Call("bisect", [NoArgs EXCEPT !.num = h], NoFrame, o)

Push ==
    \E rows \in PushedRows : Call("push", [NoArgs EXCEPT !.items = rows], NoFrame, push(d, rows))

GroupBy ==
    \E c \in {<<ID>>, <<X>>, <<ID, X>>} :
        LET gdf == groupBy(d, c)
        IN Call("groupBy", [NoArgs EXCEPT !.cols = c], NoFrame,
                OkMany([k \in 1..Len(gdf.groups) |-> gdf.groups[k].group], listGroups(gdf)))

Aggregate ==
    \E c \in {<<ID>>, <<X>>, <<ID, X>>}, f \in AggregateFns :
        Call("aggregate", [NoArgs EXCEPT !.cols = c, !.fns = <<f>>], NoFrame,
             aggregate(groupBy(d, c), f))

\* d.sortBy(columnName, reverse) with one of its outcomes
Sorted(c, reverse, s) ==
    /\ op = "idle"
    /\ op' = "sortBy"
    /\ args' = [NoArgs EXCEPT !.cols = <<c>>, !.flag = reverse]
    /\ e' = NoFrame
    /\ res' = s.out
    /\ pre' = d
    /\ d' = [d EXCEPT !.rows = s.rows]
    /\ pretables' = tables
    /\ UNCHANGED <<tables, defaultModules>>

SortBy ==
    \E c \in {ID, X}, reverse \in BOOLEAN : \E s \in sortBy(d, c, reverse) : Sorted(c, reverse, s)

\* sortBy on the column of numbers of a DataFrame of more than InsertionSortLimit rows
SortByNumbers ==
    \E reverse \in BOOLEAN : \E s \in sortBy(d, ID, reverse) : Sorted(ID, reverse, s)

Union ==
    \E other \in Others : Call("union", NoArgs, other, union(d, other))

InnerJoin ==
    \E other \in Others : Call("innerJoin", [NoArgs EXCEPT !.cols = <<ID>>], other,
                               innerJoin(d, other, ID))

FullJoin ==
    \E other \in Others : Call("fullJoin", [NoArgs EXCEPT !.cols = <<ID>>], other,
                               fullJoin(d, other, ID))

OuterJoin ==
    \E other \in Others : Call("outerJoin", [NoArgs EXCEPT !.cols = <<ID>>], other,
                               outerJoin(d, other, ID))

LeftJoin ==
    \E other \in Others : Call("leftJoin", [NoArgs EXCEPT !.cols = <<ID>>], other,
                               leftJoin(d, other, ID))

RightJoin ==
    \E other \in Others : Call("rightJoin", [NoArgs EXCEPT !.cols = <<ID>>], other,
                               rightJoin(d, other, ID))

\* join(dfToJoin, on, how) ends in the method of its mode
Join ==
    \E other \in Others, how \in JoinModes :
        Call(how \o "Join", [NoArgs EXCEPT !.cols = <<ID>>], other, join(d, other, ID, how))

\* new DataFrame(d.toCollection(true))
FromCollection ==
    Call("fromCollection", NoArgs, NoFrame,
         DataFrameNewWith(ArrayData(toCollection(d)), NoColumns, <<>>))

\* the caller is done with the result of the call; d is ready for the next call
Return ==
    /\ op # "idle"
    /\ op' = "idle"
    /\ args' = NoArgs
    /\ e' = NoFrame
    /\ res' = NoCall
    /\ pre' = d
    /\ d' = d
    /\ pretables' = tables
    /\ UNCHANGED <<tables, defaultModules>>

\* a call of the registry: it leaves d alone
SqlCall(name, a, outcome) ==
    /\ op = "idle"
    /\ op' = name
    /\ args' = a
    /\ e' = NoFrame
    /\ res' = outcome.out
    /\ pre' = d
    /\ d' = d
    /\ pretables' = tables
    /\ tables' = outcome.tables
    /\ UNCHANGED defaultModules

\* SQL.registerTable(df, tableName, overwrite), df being d, another DataFrame or
\* an array
RegisterTable ==
    \E df \in TableRefs \cup {NotAFrame}, tableName \in TableNames, overwrite \in BOOLEAN :
        SqlCall("registerTable",
                [NoArgs EXCEPT !.df = df, !.table = tableName, !.flag = overwrite],
                registerTable(tables, df, tableName, overwrite))

DropTable ==
    \E tableName \in TableNames :
        SqlCall("dropTable", [NoArgs EXCEPT !.table = tableName],
                [out |-> Done, tables |-> dropTable(tables, tableName)])

DropTables == SqlCall("dropTables", NoArgs, [out |-> Done, tables |-> dropTables(tables)])

RenameTable ==
    \E tableName \in TableNames, replacement \in TableNames, overwrite \in BOOLEAN :
        SqlCall("renameTable",
                [NoArgs EXCEPT !.table = tableName, !.table2 = replacement, !.flag = overwrite],
                renameTable(tables, tableName, replacement, overwrite))

ListTables == SqlCall("listTables", NoArgs, [out |-> Names(listTables(tables)), tables |-> tables])

\* d.union(other), other being d itself or a DataFrame with another schema
UnionWith ==
    \E other \in {d, OtherFrame} : Call("union", NoArgs, other, union(d, other))

\* d.join(other, 'id', how), other being d itself or a DataFrame with another schema
JoinWith ==
    \E other \in {d, OtherFrame}, how \in JoinModes :
        Call(how \o "Join", [NoArgs EXCEPT !.cols = <<ID>>], other, join(d, other, ID, how))

InitSQL ==
    /\ defaultModules = NoModules
    /\ d \in SortReceivers
    /\ e = NoFrame
    /\ op = "idle"
    /\ args = NoArgs
    /\ res = NoCall
    /\ pre = d
    /\ tables = <<>>
    /\ pretables = tables

NextSQL ==
    \/ RegisterTable \/ DropTable \/ DropTables \/ RenameTable \/ ListTables
    \/ SortBy \/ UnionWith \/ JoinWith \/ RenameAll \/ Return

SpecSQL == InitSQL /\ [][NextSQL]_vars

\* DataFrame.setDefaultModules(...defaultModules)
SetDefaultModules ==
    \E list \in DefaultLists :
        /\ op = "idle"
        /\ op' = "setDefaultModules"
        /\ args' = [NoArgs EXCEPT !.modules = list]
        /\ defaultModules' = [set |-> TRUE, list |-> list]
        /\ res' = Done
        /\ pre' = d
        /\ pretables' = tables
        /\ UNCHANGED <<d, e, tables>>

\* d = new DataFrame(data, columns, ...modules), the data being one of BuildData
\* or d itself
Construct ==
    \E data \in BuildData \cup {FrameData(d)}, columns \in BuildColumns, modules \in ModuleLists :
        LET built == DataFrameNewWith(data, columns, modules)
        IN /\ op = "idle"
           /\ op' = "construct"
           /\ args' = [NoArgs EXCEPT !.cols = columns.names, !.flag = columns.given,
                                     !.modules = modules, !.df = data.kind]
           /\ res' = built
           /\ pre' = d
           /\ d' = IF IsOk(built) THEN Df(built) ELSE d
           /\ pretables' = tables
           /\ UNCHANGED <<e, tables, defaultModules>>

\* what d.method(...) returns, for a method that keeps the columns
Derived(this, method) ==
    CASE method = "restructure" -> restructure(this, this.columns)
      [] method = "renameAll" -> renameAll(this, this.columns)
      [] method = "filter" -> filter(this, FnCondition("xIsL"))
      [] OTHER -> map(this, "addZ")

\* d = d.method(...): the caller goes on with the DataFrame returned
Derive ==
    \E method \in DerivedBy :
        LET out == Derived(d, method)
        IN /\ op = "idle"
           /\ Len(d.modules) < MaxModules
           /\ op' = "derive"
           /\ args' = [NoArgs EXCEPT !.method = method]
           /\ res' = out
           /\ pre' = d
           /\ d' = IF IsOk(out) THEN Df(out) ELSE d
           /\ pretables' = tables
           /\ UNCHANGED <<e, tables, defaultModules>>

InitBuild ==
    /\ defaultModules = NoModules
    /\ d = Df(DataFrameNew(ArrayData(<<DictOf(<< <<ID, Num(1)>>, <<X, Str("L")>> >>)>>), NoColumns))
    /\ e = NoFrame
    /\ op = "idle"
    /\ args = NoArgs
    /\ res = NoCall
    /\ pre = d
    /\ tables = <<>>
    /\ pretables = tables

NextBuild == SetDefaultModules \/ Construct \/ Derive \/ Return

SpecBuild == InitBuild /\ [][NextBuild]_vars

InitSort ==
    /\ defaultModules = NoModules
    /\ d \in LongReceivers
    /\ e = NoFrame
    /\ op = "idle"
    /\ args = NoArgs
    /\ res = NoCall
    /\ pre = d
    /\ tables = <<>>
    /\ pretables = tables

NextSort == SortByNumbers \/ Return

SpecSort == InitSort /\ [][NextSort]_vars

Next ==
    \/ Select \/ WithColumn \/ Restructure \/ RenameAll \/ Rename \/ Drop \/ DistinctOf
    \/ Filter \/ Map \/ Chain \/ Replace \/ Transpose \/ Shuffle \/ Sample \/ Bisect
    \/ Push \/ GroupBy \/ Aggregate \/ SortBy \/ Union
    \/ InnerJoin \/ FullJoin \/ OuterJoin \/ LeftJoin \/ RightJoin \/ Join
    \/ FromCollection \/ Return

Spec == Init /\ [][Next]_vars

-----------------------------------------------------------------------------
(* Properties *)

JoinOps == {"innerJoin", "fullJoin", "outerJoin", "leftJoin", "rightJoin"}

Occurrences(seq, x) == Cardinality({i \in DOMAIN seq : seq[i] = x})

\* C1: a call of any transformation leaves count(), listColumns() and toArray()
\* of the receiver, the order of its rows included, as they were before the call.
C1_ReceiverUnchanged ==
    /\ count(d) = count(pre)
    /\ listColumns(d) = listColumns(pre)
    /\ toArray(d) = toArray(pre)

\* C2: innerJoin gives, for a left row and a right row with the same key, one row
\* with the values of both; [{id:1,x:'L'}] joined with [{id:1,y:'R'},{id:2,y:'R2'}]
\* gives exactly [{id:1,x:'L',y:'R'}].
ExampleLeft == Df(DataFrameNew(ArrayData(<<DictOf(<< <<ID, Num(1)>>, <<X, Str("L")>> >>)>>),
                               Given(<<ID, X>>)))
ExampleRight == Df(DataFrameNew(ArrayData(<<DictOf(<< <<ID, Num(1)>>, <<Y, Str("R")>> >>),
                                            DictOf(<< <<ID, Num(2)>>, <<Y, Str("R2")>> >>)>>),
                                Given(<<ID, Y>>)))
C2_InnerJoinMergesRows ==
    (op = "innerJoin" /\ e.columns = <<ID, Y>>) =>
        /\ \A i \in DOMAIN pre.rows, j \in DOMAIN e.rows :
              RowGet(pre.rows[i], ID) = RowGet(e.rows[j], ID) =>
                 /\ IsOk(res)
                 /\ \E k \in DOMAIN Df(res).rows :
                       /\ RowGet(Df(res).rows[k], ID) = RowGet(pre.rows[i], ID)
                       /\ RowGet(Df(res).rows[k], X) = RowGet(pre.rows[i], X)
                       /\ RowGet(Df(res).rows[k], Y) = RowGet(e.rows[j], Y)
        /\ (pre = ExampleLeft /\ e = ExampleRight) =>
              /\ IsOk(res)
              /\ toArray(Df(res)) = << <<Num(1), Str("L"), Str("R")>> >>


\* the values of the join column that occur in a DataFrame
KeyValues(df, on) == {RowGet(df.rows[i], on) : i \in DOMAIN df.rows}

\* the mode table: is a row of this side, with key value k, in the result of the mode?
LeftIncluded(mode, k, right) ==
    CASE mode \in {"innerJoin", "rightJoin"} -> k \in KeyValues(right, ID)
      [] mode = "outerJoin" -> k \notin KeyValues(right, ID)
      [] OTHER -> TRUE
RightIncluded(mode, k, left) ==
    CASE mode \in {"innerJoin", "leftJoin"} -> k \in KeyValues(left, ID)
      [] mode = "outerJoin" -> k \notin KeyValues(left, ID)
      [] OTHER -> TRUE

\* the columns of the right that the left does not have, in the right's order
RightOnly(left, right) == SelectSeq(right.columns, LAMBDA c : c \notin Range(left.columns))
JoinSchema(left, right) == left.columns \o RightOnly(left, right)

\* a row of one side over the schema of the join: its own values, and the
\* no-value sentinel in the columns that only the other side has
Padded(row, own, schema) ==
    [kind |-> "row",
     cells |-> [i \in 1..Len(schema) |->
                  <<schema[i], IF schema[i] \in Range(own.columns)
                               THEN RowGet(row, schema[i]) ELSE Undef>>]]

IncludedLeft(mode, left, right) ==
    SelectSeq(left.rows, LAMBDA r : LeftIncluded(mode, RowGet(r, ID), right))
IncludedRight(mode, left, right) ==
    SelectSeq(right.rows, LAMBDA r : RightIncluded(mode, RowGet(r, ID), left))

\* C3: the rows of a join result are exactly the rows of the groups that the
\* mode table includes (each as many times as it occurs in them), and every row
\* of an innerJoin has a key value that occurs on both sides.
C3_JoinInclusion ==
    (op \in JoinOps /\ IsOk(res)) =>
        LET schema == JoinSchema(pre, e)
            fromLeft == IncludedLeft(op, pre, e)
            fromRight == IncludedRight(op, pre, e)
            expected == [i \in 1..Len(fromLeft) |-> Padded(fromLeft[i], pre, schema)]
                        \o [i \in 1..Len(fromRight) |-> Padded(fromRight[i], e, schema)]
            rows == Df(res).rows
        IN /\ Len(rows) = Len(expected)
           /\ \A r \in Range(rows) \cup Range(expected) :
                 Occurrences(rows, r) = Occurrences(expected, r)
           /\ op = "innerJoin" =>
                 \A r \in Range(rows) :
                    RowGet(r, ID) \in KeyValues(pre, ID) \cap KeyValues(e, ID)

\* a join that leaves out a group of each side and keeps rows of both
C3_Witness ==
    /\ op = "innerJoin" /\ IsOk(res)
    /\ Len(IncludedLeft(op, pre, e)) > 0 /\ Len(IncludedLeft(op, pre, e)) < Len(pre.rows)
    /\ Len(IncludedRight(op, pre, e)) > 0 /\ Len(IncludedRight(op, pre, e)) < Len(e.rows)

\* C4: the schema of a join result is the left's columns followed by the
\* right-only columns, and each of its rows is a row of one side with its own
\* values in its own columns and the sentinel in the columns only the other has.
C4_JoinSchemaAndPadding ==
    (op \in JoinOps /\ IsOk(res)) =>
        LET schema == JoinSchema(pre, e)
            rows == Df(res).rows
        IN /\ listColumns(Df(res)) = schema
           /\ \A k \in DOMAIN rows :
                 /\ RowColumns(rows[k]) = schema
                 /\ \/ \E i \in DOMAIN pre.rows : rows[k] = Padded(pre.rows[i], pre, schema)
                    \/ \E j \in DOMAIN e.rows : rows[k] = Padded(e.rows[j], e, schema)

\* a left join whose result has a left row padded in y and a right row padded in x
C4_Witness ==
    /\ op = "leftJoin" /\ IsOk(res) /\ e.columns = <<ID, Y>>
    /\ \E k \in DOMAIN Df(res).rows :
          RowGet(Df(res).rows[k], X) = Str("L") /\ RowGet(Df(res).rows[k], Y) = Undef
    /\ \E k \in DOMAIN Df(res).rows :
          RowGet(Df(res).rows[k], Y) = Str("R") /\ RowGet(Df(res).rows[k], X) = Undef


\* the steps applied one after the other, each boolean step as filter(step) and
\* each Row step as map(step), on the DataFrame the step before returned
RECURSIVE Sequentially(_, _)
Sequentially(outcome, funcs) ==
    IF funcs = <<>> \/ ~IsOk(outcome) THEN outcome
    ELSE Sequentially(IF Head(funcs) \in FilterFns
                      THEN filter(Df(outcome), FnCondition(Head(funcs)))
                      ELSE map(Df(outcome), Head(funcs)),
                      Tail(funcs))

\* C5: chain(steps...) returns the rows, in the order, that applying the steps one
\* after the other as filter and map returns, and never more rows than d has.
C5_ChainFusion ==
    op = "chain" =>
        LET oneByOne == Sequentially(Ok(pre), args.fns)
        IN /\ IsOk(res) /\ IsOk(oneByOne)
           /\ Df(res).rows = Df(oneByOne).rows
           /\ count(Df(res)) <= count(pre)

\* a chain of a filter and a map that drops a row, keeps a row and changes it
C5_Witness ==
    /\ op = "chain" /\ IsOk(res)
    /\ \E i, j \in DOMAIN args.fns : i < j /\ args.fns[i] \in FilterFns /\ args.fns[j] \in MapFns
    /\ count(Df(res)) > 0 /\ count(Df(res)) < count(pre)
    /\ \A k \in DOMAIN Df(res).rows : Df(res).rows[k] \notin Range(pre.rows)

\* C6: union succeeds exactly when the schemas are identical, then returns a's rows
\* followed by b's rows, so |a.union(b)| = |a| + |b|; with any other pair of schemas
\* it throws the schema error and returns no DataFrame.
C6_Union ==
    op = "union" =>
        IF pre.columns = e.columns
        THEN /\ IsOk(res)
             /\ Df(res).rows = pre.rows \o e.rows
             /\ count(Df(res)) = count(pre) + count(e)
             /\ listColumns(Df(res)) = pre.columns
        ELSE res = Throw("WrongSchemaError")

\* a union of two DataFrames with rows and equal schemas has succeeded
C6_Witness ==
    /\ op = "union" /\ IsOk(res) /\ count(pre) > 0 /\ count(e) > 0
    /\ e.rows[1] \notin Range(pre.rows)

\* a union with the same names in another order has failed
C6_WitnessMismatch ==
    /\ op = "union" /\ ~IsOk(res) /\ e.columns = <<X, ID>> /\ count(e) > 0

\* the condition of the filter call, as the caller means it
Satisfies(row, a) ==
    IF a.flag THEN Truthy(ApplyFn(a.fns[1], row))
    ELSE \A i \in DOMAIN a.pairs : RowGet(row, a.pairs[i][1]) = a.pairs[i][2]

\* C7: filter(p) returns exactly the rows of d that satisfy p, in d's order, p a
\* row function or a column-to-value mapping; with d's schema when a row matches,
\* with no rows and an empty schema when none does.
C7_Filter ==
    op = "filter" =>
        LET matching == SelectSeq(pre.rows, LAMBDA r : Satisfies(r, args))
        IN /\ IsOk(res)
           /\ Df(res).rows = matching
           /\ count(Df(res)) <= count(pre)
           /\ listColumns(Df(res)) = IF matching # <<>> THEN pre.columns ELSE <<>>

\* C7 with the mappings that have at least one pair
C7_FilterNonEmptyMapping ==
    (op = "filter" /\ (args.flag \/ args.pairs # <<>>)) => C7_Filter


\* the values of the columns c in a row, and where a tuple of them first occurs
ValuesAt(row, c) == [i \in 1..Len(c) |-> RowGet(row, c[i])]
FirstIndex(df, c, key) ==
    CHOOSE i \in DOMAIN df.rows :
        /\ ValuesAt(df.rows[i], c) = key
        /\ \A j \in 1..(i - 1) : ValuesAt(df.rows[j], c) # key

\* C8: groupBy(c).aggregate(f) calls f once for each group and returns one row
\* for each distinct value of c in d, in the order in which the values first
\* appear in d, with the columns c followed by 'aggregation', which holds f's
\* result for the group.
C8_Aggregate ==
    op = "aggregate" =>
        LET c == args.cols
            keys == {ValuesAt(pre.rows[i], c) : i \in DOMAIN pre.rows}
            group(key) == [columns |-> pre.columns,
                           rows |-> SelectSeq(pre.rows, LAMBDA r : ValuesAt(r, c) = key)]
        IN /\ IsOk(res)
           /\ res.calls = Cardinality(keys)
           /\ count(Df(res)) = Cardinality(keys)
           /\ listColumns(Df(res)) = Append(c, AGGREGATION)
           /\ \A k \in DOMAIN Df(res).rows :
                 LET row == Df(res).rows[k]
                 IN /\ RowColumns(row) = Append(c, AGGREGATION)
                    /\ ValuesAt(row, c) \in keys
                    /\ RowGet(row, AGGREGATION) =
                          ApplyAggregateFn(args.fns[1], group(ValuesAt(row, c)))
                    /\ \A l \in DOMAIN Df(res).rows :
                          k < l => FirstIndex(pre, c, ValuesAt(row, c))
                                     < FirstIndex(pre, c, ValuesAt(Df(res).rows[l], c))

\* an aggregation of a DataFrame in which a value of the column is repeated
C8_Witness ==
    /\ op = "aggregate" /\ IsOk(res) /\ args.cols = <<ID>> /\ args.fns = <<"count">>
    /\ count(Df(res)) >= 1 /\ count(Df(res)) < count(pre)
    /\ \E k \in DOMAIN Df(res).rows : RowGet(Df(res).rows[k], AGGREGATION) = Num(2)

\* C9: a DataFrame built from d.toCollection(true), no schema passed, has the
\* listColumns() and the toArray() of d.
C9_RoundTrip ==
    op = "fromCollection" =>
        /\ IsOk(res)
        /\ listColumns(Df(res)) = listColumns(pre)
        /\ toArray(Df(res)) = toArray(pre)

\* C9 for the DataFrames that have a row
C9_RoundTripWithRows ==
    (op = "fromCollection" /\ count(pre) > 0) => C9_RoundTrip

\* the column holds values of two runtime types
MixedTypes(df, c) ==
    \E i, j \in DOMAIN df.rows : typeof(RowGet(df.rows[i], c)) # typeof(RowGet(df.rows[j], c))

\* C10: sortBy(column) throws the mixed-type error, and returns no DataFrame,
\* whenever the column holds values of two runtime types; with fewer than two
\* rows, or with values of one type, it does not throw it.
C10_SortByMixedTypes ==
    op = "sortBy" =>
        IF MixedTypes(pre, args.cols[1])
        THEN res = Throw("MixedTypeError") /\ res.dfs = <<>>
        ELSE IsOk(res) /\ res.err # "MixedTypeError"

\* a sortBy on a column that holds a number and a string has thrown
C10_Witness ==
    /\ op = "sortBy" /\ res = Throw("MixedTypeError") /\ args.cols = <<ID>>
    /\ \E i, j \in DOMAIN pre.rows :
          RowGet(pre.rows[i], ID) = Num(1) /\ RowGet(pre.rows[j], ID) = Str("a")

\* a sortBy on a column of numbers has returned
C10_WitnessOneType ==
    /\ op = "sortBy" /\ IsOk(res) /\ args.cols = <<ID>> /\ count(pre) >= 2

\* the names are a schema: no name occurs twice
IsSchema(names) == \A i, j \in DOMAIN names : names[i] = names[j] => i = j

\* the columns of df with the one named old replaced by new
Renamed(df, old, new) ==
    [i \in 1..Len(df.columns) |-> IF df.columns[i] = old THEN new ELSE df.columns[i]]

\* C11: renameAll(newColumns) throws the schema error exactly when newColumns has
\* not as many names as d has columns; otherwise it returns a DataFrame with the
\* schema newColumns and the toArray() of d.  rename(old, new) returns what
\* renameAll returns for d's columns with old replaced by new, and a DataFrame
\* equal to d when old is not a column.
C11_RenameAll ==
    /\ (op = "renameAll" /\ IsSchema(args.cols)) =>
          IF Len(args.cols) # Len(pre.columns)
          THEN res = Throw("WrongSchemaError")
          ELSE /\ IsOk(res)
               /\ listColumns(Df(res)) = args.cols
               /\ \A k \in DOMAIN Df(res).rows : RowColumns(Df(res).rows[k]) = args.cols
               /\ count(Df(res)) = count(pre)
               /\ toArray(Df(res)) = toArray(pre)
    /\ (op = "rename" /\ IsSchema(Renamed(pre, args.cols[1], args.cols[2]))) =>
          /\ res = renameAll(pre, Renamed(pre, args.cols[1], args.cols[2]))
          /\ IsOk(res)
          /\ listColumns(Df(res)) = Renamed(pre, args.cols[1], args.cols[2])
          /\ toArray(Df(res)) = toArray(pre)
          /\ args.cols[1] \notin Range(pre.columns) =>
                listColumns(Df(res)) = pre.columns /\ Df(res).rows = pre.rows

\* a renameAll with as many names as columns has renamed a DataFrame with rows
C11_Witness ==
    /\ op = "renameAll" /\ IsOk(res) /\ count(pre) > 0
    /\ args.cols = <<X, ID>> /\ listColumns(Df(res)) # pre.columns

\* a renameAll with one name too many has failed
C11_WitnessWrongLength ==
    /\ op = "renameAll" /\ ~IsOk(res) /\ Len(args.cols) = Len(pre.columns) + 1

\* a rename of a column of d has returned
C11_WitnessRename ==
    /\ op = "rename" /\ IsOk(res) /\ args.cols = <<X, Z>> /\ count(pre) > 0
    /\ listColumns(Df(res)) = <<ID, Z>>

\* C12: registerTable(df, name, overwrite), df a DataFrame, throws the
\* already-exists error exactly when name is registered and overwrite is false,
\* and then SQL.tables is what it was; otherwise name maps to df afterwards and
\* every other name maps to what it mapped to.  With something that is not a
\* DataFrame it throws the input type error and SQL.tables is what it was.  What
\* a name maps to changes only in dropTable, dropTables, renameTable and a
\* registerTable of the name that does not fail.
C12_RegisterTable ==
    /\ (op = "registerTable" /\ args.df \in TableRefs) =>
          IF args.table \in Range(listTables(pretables)) /\ ~args.flag
          THEN res = Throw("TableAlreadyExistsError") /\ tables = pretables
          ELSE /\ IsOk(res)
               /\ TableOf(tables, args.table) = args.df
               /\ \A n \in TableNames \ {args.table} : TableOf(tables, n) = TableOf(pretables, n)
               /\ Range(listTables(tables)) = Range(listTables(pretables)) \cup {args.table}
    /\ (op = "registerTable" /\ args.df \notin TableRefs) =>
          res = Throw("InputTypeError") /\ tables = pretables
    /\ \A n \in TableNames :
          TableOf(tables, n) # TableOf(pretables, n) =>
             \/ op \in {"dropTable", "dropTables", "renameTable"}
             \/ op = "registerTable" /\ args.table = n /\ IsOk(res)

\* a registerTable of a registered name without overwrite has failed
C12_Witness ==
    /\ op = "registerTable" /\ res = Throw("TableAlreadyExistsError")
    /\ args.df = "other" /\ TableOf(pretables, args.table) = "this"
    /\ Len(pretables) = 2

\* a registerTable with overwrite has replaced the DataFrame of a name
C12_WitnessOverwrite ==
    /\ op = "registerTable" /\ IsOk(res) /\ args.flag
    /\ TableOf(pretables, args.table) = "this" /\ TableOf(tables, args.table) = "other"
    /\ Len(tables) = 2

\* C13: bisect(fraction) returns, for a DataFrame of any number of rows and any
\* outcome of the random choices, two DataFrames with d's schema whose row counts
\* sum to d.count() and whose rows together are d's rows, each as many times as
\* d has it.
C13_Bisect ==
    op = "bisect" =>
        /\ IsOk(res)
        /\ Len(res.dfs) = 2
        /\ listColumns(res.dfs[1]) = pre.columns
        /\ listColumns(res.dfs[2]) = pre.columns
        /\ count(res.dfs[1]) + count(res.dfs[2]) = count(pre)
        /\ \A r \in Range(pre.rows) \cup Range(res.dfs[1].rows) \cup Range(res.dfs[2].rows) :
              Occurrences(res.dfs[1].rows \o res.dfs[2].rows, r) = Occurrences(pre.rows, r)

\* C13 for the DataFrames of two rows or more
C13_BisectTwoRows ==
    (op = "bisect" /\ count(pre) >= 2) => C13_Bisect

\* the default providers, and the list a DataFrame derived from parent should have
Defaults == IF defaultModules.set THEN defaultModules.list ELSE <<>>
ProvidersOf(parent) ==
    Defaults \o SelectSeq(parent.modules, LAMBDA m : m \notin Range(Defaults))

\* C14: in every DataFrame, built by the constructor or returned by a sequence of
\* transformations, with or without default modules set, each provider occurs
\* once in the module list and has one instance, made with that DataFrame; a
\* constructed DataFrame has the default providers followed by the providers it
\* was given, and a derived one has the providers of the one it is derived from.
C14_Modules ==
    /\ IsSchema(d.modules)
    /\ d.plugins = [i \in 1..Len(d.modules) |-> [plugin |-> d.modules[i], df |-> "self"]]
    /\ (op = "construct" /\ IsOk(res)) => d.modules = Defaults \o args.modules
    /\ (op = "derive" /\ IsOk(res)) =>
          /\ d.modules \in {pre.modules, ProvidersOf(pre)}
          /\ Len(d.modules) <= Len(ProvidersOf(pre))

\* C14 as long as setDefaultModules has not been called
C14_ModulesNoDefaults ==
    ~defaultModules.set => C14_Modules

\* a DataFrame with a module has been derived from one built with that module
C14_DerivedWithModule ==
    /\ op = "derive" /\ IsOk(res) /\ ~defaultModules.set
    /\ pre.modules = <<"FakeModule">> /\ d.modules = <<"FakeModule">>
    /\ args.method = "renameAll"

\* has a space
HasSpace(name) == " " \in Range(name)

\* C16: no column name of a constructed DataFrame contains a space, whatever the
\* number of spaces in the names the caller gives, and also when the names are
\* the keys of the records or of the column mapping.
C16_NoSpaces ==
    (op = "construct" /\ IsOk(res)) =>
        \A i \in DOMAIN listColumns(Df(res)) : ~HasSpace(listColumns(Df(res))[i])

\* C16 for a schema given by the caller, each name with one space at most
C16_NoSpacesOneSpace ==
    (op = "construct" /\ args.flag /\ args.cols # <<ABC, X>>) => C16_NoSpaces

\* the call has failed with one of the errors of sortBy, union, renameAll,
\* registerTable and renameTable
FailedWith(name, err) == op = name /\ res = Throw(err)

\* C15: when sortBy fails with the mixed-type error, union or renameAll with the
\* schema error, registerTable or renameTable with the already-exists error, the
\* rows of the receiver, their order included, its schema and SQL.tables are
\* exactly what they were before the call.
C15_AllOrNothing ==
    (\/ FailedWith("sortBy", "MixedTypeError")
     \/ FailedWith("union", "WrongSchemaError")
     \/ FailedWith("renameAll", "WrongSchemaError")
     \/ FailedWith("registerTable", "TableAlreadyExistsError")
     \/ FailedWith("renameTable", "TableAlreadyExistsError")) =>
        /\ d.rows = pre.rows
        /\ d.columns = pre.columns
        /\ tables = pretables

\* C15 for the calls other than sortBy
C15_AllOrNothingButSortBy ==
    op # "sortBy" => C15_AllOrNothing

\* a renameTable to a registered name has failed
C15_RenameTableFailed ==
    /\ FailedWith("renameTable", "TableAlreadyExistsError")
    /\ Len(pretables) = 2 /\ args.table # args.table2

\* every Row of the DataFrame has the DataFrame's columns, in their order
RowsFitSchema(df) == \A i \in DOMAIN df.rows : RowColumns(df.rows[i]) = df.columns

\* C17: in every DataFrame that a transformation of a constructed DataFrame
\* returns, map and chain with functions that return Rows with other columns
\* included, every Row has exactly the schema of the DataFrame as its columns,
\* in the same order.
C17_RowsFitSchema ==
    /\ RowsFitSchema(d)
    /\ IsOk(res) => \A k \in DOMAIN res.dfs : RowsFitSchema(res.dfs[k])

\* C17 for the transformations other than map, chain and replace, which is a map
C17_RowsFitSchemaButMapChain ==
    op \notin {"map", "chain", "replace"} => C17_RowsFitSchema

\* the column holds numbers only
AllNumbers(df, c) == \A i \in DOMAIN df.rows : typeof(RowGet(df.rows[i], c)) = "number"

\* the place of row i in the stable ascending order of the column: after the rows
\* with a smaller value and the earlier rows with the same value
Rank(df, c, i) ==
    1 + Cardinality({j \in DOMAIN df.rows :
            \/ RowGet(df.rows[j], c).n < RowGet(df.rows[i], c).n
            \/ RowGet(df.rows[j], c).n = RowGet(df.rows[i], c).n /\ j < i})
StablySorted(df, c) ==
    [k \in 1..Len(df.rows) |-> df.rows[CHOOSE i \in DOMAIN df.rows : Rank(df, c, i) = k]]

\* C18: on a column of numbers sortBy(column) returns d's rows in non-decreasing
\* order of the column, rows with equal values in their original order, with d's
\* schema; sortBy(column, true) returns that sequence reversed.
C18_SortByNumbers ==
    (op = "sortBy" /\ AllNumbers(pre, args.cols[1])) =>
        /\ IsOk(res)
        /\ listColumns(Df(res)) = pre.columns
        /\ Df(res).rows = IF args.flag THEN Reverse(StablySorted(pre, args.cols[1]))
                          ELSE StablySorted(pre, args.cols[1])
        /\ ~args.flag =>
              \A k \in 1..(count(Df(res)) - 1) :
                 RowGet(Df(res).rows[k], args.cols[1]).n <= RowGet(Df(res).rows[k + 1], args.cols[1]).n

\* C18 for the DataFrames of InsertionSortLimit rows or fewer
C18_SortByNumbersShort ==
    count(pre) <= InsertionSortLimit => C18_SortByNumbers

\* the Row that the functions before step k hand to step k: each map step
\* replaces the row, each filter step leaves it
RECURSIVE RowBefore(_, _, _)
RowBefore(row, funcs, k) ==
    IF k = 1 THEN row
    ELSE LET before == RowBefore(row, funcs, k - 1)
             out == ApplyFn(funcs[k - 1], before)
         IN IF out.isBool THEN before ELSE out.row

\* step k returns false for row i of the DataFrame
Rejects(df, funcs, i, k) ==
    LET out == ApplyFn(funcs[k], RowBefore(df.rows[i], funcs, k))
    IN out.isBool /\ ~out.b

\* C19: chain goes through the rows once.  The calls of the steps come row after
\* row and, for a row, in the order of the list, each step once at most; a step
\* is called with the row the map steps before it have made; after a step that
\* returns false no later step is called for that row, and the row is not in the
\* result; a row for which no step returns false has every step called.
C19_ChainTraversal ==
    op = "chain" =>
        LET t == res.trace
            called(i, k) == \E a \in DOMAIN t : t[a].row = i /\ t[a].step = k
        IN /\ \A a, b \in DOMAIN t :
                 a < b => \/ t[a].row < t[b].row
                          \/ t[a].row = t[b].row /\ t[a].step < t[b].step
           /\ \A a \in DOMAIN t :
                 /\ t[a].row \in DOMAIN pre.rows /\ t[a].step \in DOMAIN args.fns
                 /\ t[a].arg = RowBefore(pre.rows[t[a].row], args.fns, t[a].step)
           /\ \A i \in DOMAIN pre.rows, k \in DOMAIN args.fns :
                 called(i, k) <=> \A j \in 1..(k - 1) : ~Rejects(pre, args.fns, i, j)
           /\ IsOk(res)
           /\ count(Df(res)) =
                 Cardinality({i \in DOMAIN pre.rows :
                                 \A k \in DOMAIN args.fns : ~Rejects(pre, args.fns, i, k)})

\* a chain of a filter and a map over two rows: the filter has stopped one row,
\* the other has gone through the map
C19_Witness ==
    /\ op = "chain" /\ count(pre) = 2 /\ Len(args.fns) = 2
    /\ args.fns[1] \in FilterFns /\ args.fns[2] \in MapFns
    /\ Len(res.trace) = 3 /\ count(Df(res)) = 1

\* a chain of two maps: the second map has been called with the row of the first
C19_WitnessMaps ==
    /\ op = "chain" /\ count(pre) >= 1 /\ args.fns = <<"setX", "addZ">>
    /\ \E a \in DOMAIN res.trace :
          res.trace[a].step = 2 /\ res.trace[a].arg # pre.rows[res.trace[a].row]

\* rows put group after group: the keys in the order in which they first
\* appear, the rows of a key in the order they have in rows
ByGroups(rows) ==
    LET keys == Distinct([i \in 1..Len(rows) |-> RowGet(rows[i], ID)])
    IN Flatten([k \in 1..Len(keys) |->
                  SelectSeq(rows, LAMBDA r : RowGet(r, ID) = keys[k])])

\* C20: the rows of a join result are the included groups of the left in the
\* left's group order, then the included groups of the right in the right's
\* group order, the rows of a group in their original order; a fullJoin has
\* |a| + |b| rows, each key of both sides once from each side.
C20_JoinOrder ==
    (op \in JoinOps /\ IsOk(res)) =>
        LET schema == JoinSchema(pre, e)
            fromLeft == ByGroups(IncludedLeft(op, pre, e))
            fromRight == ByGroups(IncludedRight(op, pre, e))
            rows == Df(res).rows
        IN /\ rows = [i \in 1..Len(fromLeft) |-> Padded(fromLeft[i], pre, schema)]
                     \o [i \in 1..Len(fromRight) |-> Padded(fromRight[i], e, schema)]
           /\ op = "fullJoin" =>
                 /\ Len(rows) = Len(pre.rows) + Len(e.rows)
                 /\ \A k \in KeyValues(pre, ID) \cap KeyValues(e, ID) :
                       Len(SelectSeq(rows, LAMBDA r : RowGet(r, ID) = k))
                          = Len(SelectSeq(pre.rows, LAMBDA r : RowGet(r, ID) = k))
                            + Len(SelectSeq(e.rows, LAMBDA r : RowGet(r, ID) = k))

\* a fullJoin of the rows with ids 1, 2, 1 with a DataFrame that has the id 1:
\* the group of 1 comes before the row of 2, and the right's row comes last
C20_Witness ==
    /\ op = "fullJoin" /\ IsOk(res) /\ e = OtherFrame
    /\ [i \in 1..Len(pre.rows) |-> RowGet(pre.rows[i], ID)] = <<Num(1), Num(2), Num(1)>>
    /\ [i \in 1..Len(Df(res).rows) |-> RowGet(Df(res).rows[i], ID)]
          = <<Num(1), Num(1), Num(2), Num(1)>>
    /\ RowGet(Df(res).rows[4], Y) = Str("R")

\* a leftJoin that leaves out a group of the right and keeps both sides' rows
C20_WitnessLeftJoin ==
    /\ op = "leftJoin" /\ IsOk(res) /\ e = pre /\ Len(pre.rows) = 3
    /\ Len(Df(res).rows) = 6
    /\ Cardinality(KeyValues(pre, ID)) = 3

\* what a renameTable of a registered name that has returned must have done,
\* but for what it leaves under the old name
RenameTableMoved ==
    /\ TableOf(tables, args.table2) = TableOf(pretables, args.table)
    /\ args.table # args.table2 => args.table \notin Range(listTables(tables))
    /\ Len(tables) >= Len(pretables) - 1
    /\ Len(tables) < Len(pretables) => args.table2 \in Range(listTables(pretables))
    /\ \A n \in TableNames \ {args.table, args.table2} :
          TableOf(tables, n) = TableOf(pretables, n)

\* C21: when renameTable(name, newName, overwrite) of a registered name
\* succeeds, the DataFrame that was under name is under newName, name is not
\* registered any more if it differs from newName, the number of tables has
\* dropped by no more than the one overwritten entry, every other entry is what
\* it was; and after renameTable(name, name, true) the table is still registered.
C21_RenameTable ==
    (op = "renameTable" /\ IsOk(res) /\ args.table \in Range(listTables(pretables))) =>
        /\ RenameTableMoved
        /\ args.table = args.table2 => args.table \in Range(listTables(tables))

\* the same for a renameTable to another name
C21_RenameTableOtherName ==
    (op = "renameTable" /\ IsOk(res) /\ args.table \in Range(listTables(pretables))
       /\ args.table # args.table2) => RenameTableMoved

\* a renameTable onto a registered name, with overwrite, next to a third table
C21_RenamedOver ==
    /\ op = "renameTable" /\ IsOk(res) /\ args.flag /\ args.table # args.table2
    /\ Len(pretables) = 3 /\ Len(tables) = 2
    /\ TableOf(pretables, args.table) = "this" /\ TableOf(pretables, args.table2) = "other"
    /\ TableOf(tables, args.table2) = "this"

\* renameTable(name, name, true) of a registered name has returned
C21_RenamedToItself ==
    /\ op = "renameTable" /\ IsOk(res) /\ args.flag /\ args.table = args.table2
    /\ args.table \in Range(listTables(pretables))

\* the mode of the join includes no row of either side
NoGroupIncluded == IncludedLeft(op, pre, e) = <<>> /\ IncludedRight(op, pre, e) = <<>>

\* a join has been called on two DataFrames that both have the join column
JoinedOnColumn ==
    op \in JoinOps /\ ID \in Range(pre.columns) /\ ID \in Range(e.columns)

\* C22: every join mode is total over DataFrames that both have the join
\* column: the join returns a DataFrame, and when the mode includes no group of
\* either side that DataFrame has no rows.
C22_JoinsTotal ==
    JoinedOnColumn => IsOk(res) /\ (NoGroupIncluded => count(Df(res)) = 0)

\* what the joins do: they return when the mode includes a group, and throw the
\* TypeError of the reduce when it includes none
C22_JoinsTotalWithGroups ==
    JoinedOnColumn => IF NoGroupIncluded THEN res = Throw("TypeError") ELSE IsOk(res)

\* an innerJoin of DataFrames with rows and no common key value has thrown
C22_InnerJoinNoCommonKey ==
    /\ JoinedOnColumn /\ op = "innerJoin" /\ NoGroupIncluded
    /\ pre.rows # <<>> /\ e.rows # <<>> /\ res = Throw("TypeError")

\* an outerJoin of DataFrames with the same key values has thrown
C22_OuterJoinSameKeys ==
    /\ JoinedOnColumn /\ op = "outerJoin" /\ pre.rows # <<>>
    /\ KeyValues(pre, ID) = KeyValues(e, ID) /\ res = Throw("TypeError")

=============================================================================
